---- MODULE Spec2Model ----
(***************************************************************************)
(* Model of libraries/utils/preprocessingUtils.py: the edge matcher        *)
(* (generateRoadNamesFile), the edge-id backfill (fillMissingEdgeId), the  *)
(* edge linker (linkEdgeId) and the zone assigner (addZones).              *)
(*                                                                         *)
(* The state is the content of the files the functions read and write.    *)
(* Every function is one action: it reads its input files, runs its whole  *)
(* loop and writes its output file.                                        *)
(*                                                                         *)
(* Text is modelled as sequences of one-character strings, so that         *)
(* str.lower(), str.split(',') and float() are computed, not assumed.      *)
(* Edge identifiers and zone identifiers are opaque, non-numeric texts     *)
(* that are none of the tokens read_csv takes for a missing value.         *)
(***************************************************************************)
EXTENDS Integers, Sequences, FiniteSets, TLC

VARIABLES inputFile, net, roadNamesFile, history, reported, outputFile, pc,
          pointsFile, zoneFile, zpc

vars == <<inputFile, net, roadNamesFile, history, reported, outputFile, pc,
          pointsFile, zoneFile, zpc>>

edgeVars == <<inputFile, net, roadNamesFile, history, reported, outputFile, pc>>
zoneVars == <<pointsFile, zoneFile, zpc>>

(***************************************************************************)
(* Bounds of the model.                                                    *)
(***************************************************************************)
MaxRows == 2        \* rows of the sensor table given to the edge matcher
MaxCand == 2        \* candidate edges one proximity query returns
MaxRecs == 4        \* records of a road-name table given to the backfill
MaxPasses == 2      \* backfill passes run one after the other
MaxLinkRows == 2    \* rows of each table given to the edge linker

(***************************************************************************)
(* Text.                                                                   *)
(***************************************************************************)
\* str.lower() on one character
LowerChar(c) ==
    CASE c = "R" -> "r"
      [] c = "O" -> "o"
      [] c = "P" -> "p"
      [] OTHER -> c

\* str.lower()
Lower(s) == [i \in DOMAIN s |-> LowerChar(s[i])]

\* position of the first comma of s (Len(s) + 1 when there is none)
RECURSIVE FindChar(_, _, _)
FindChar(s, c, i) ==
    IF i > Len(s) THEN i
    ELSE IF s[i] = c THEN i
    ELSE FindChar(s, c, i + 1)

\* coord.split(',') for a "lat,lon" text: the two parts around the comma
Split(s) ==
    LET k == FindChar(s, ",", 1)
    IN  <<SubSeq(s, 1, k - 1), SubSeq(s, k + 1, Len(s))>>

DigitVal(c) ==
    CASE c = "0" -> 0
      [] c = "1" -> 1
      [] c = "2" -> 2
      [] c = "3" -> 3
      [] c = "4" -> 4

RECURSIVE DecimalVal(_)
DecimalVal(digits) ==
    IF digits = <<>> THEN 0
    ELSE 10 * DecimalVal(SubSeq(digits, 1, Len(digits) - 1))
         + DigitVal(digits[Len(digits)])

\* float() of a literal whose fractional digits, if any, are zeros
Float(lit) == DecimalVal(SubSeq(lit, 1, FindChar(lit, ".", 1) - 1))

\* lat, lon = map(float, coord.split(','))
LatLon(coord) == <<Float(Split(coord)[1]), Float(Split(coord)[2])>>

(***************************************************************************)
(* The values of the model's inputs.                                       *)
(***************************************************************************)
\* road names of the sensor table ('Nome via')
RoadNames == {<<"R", "o">>, <<"P", "o">>}

\* geopoint texts: the first two are one point written in two ways
GeoA  == <<"1", ",", "1">>
GeoA0 == <<"1", ".", "0", ",", "1">>
GeoB  == <<"2", ",", "1">>

NaN == "NaN"
None == [id |-> "None", name |-> <<>>, type |-> "None"]

\* the edges of the road network (sumolib edges: getID, getName, getType)
NetEdges ==
    { [id |-> "e1", name |-> <<"R", "O">>, type |-> "highway.footway"],
      [id |-> "e2", name |-> <<"P", "o">>, type |-> "highway.residential"],
      [id |-> "e3", name |-> <<"p", "o">>, type |-> "highway.steps"] }

Dists == {1, 2}

RECURSIVE SeqsUpTo(_, _)
\* the sequences over S of length at most n
SeqsUpTo(S, n) ==
    IF n = 0 THEN {<<>>}
    ELSE LET shorter == SeqsUpTo(S, n - 1)
         IN  shorter \cup {Append(s, x) : s \in {t \in shorter : Len(t) = n - 1}, x \in S}

Range(s) == {s[i] : i \in DOMAIN s}

\* what one proximity query can return: distinct edges, each with a distance,
\* in the order the network hands them out
CandLists ==
    {c \in SeqsUpTo([edge : NetEdges, dist : Dists], MaxCand) :
        \A i, j \in DOMAIN c : i # j => c[i].edge # c[j].edge}

(***************************************************************************)
(* generateRoadNamesFile (the edge matcher).                               *)
(***************************************************************************)
\* input_df[['Nome via', 'geopoint']].drop_duplicates(): first occurrences,
\* in row order
RECURSIVE DropDuplicates(_)
DropDuplicates(df) ==
    IF df = <<>> THEN <<>>
    ELSE LET init == DropDuplicates(SubSeq(df, 1, Len(df) - 1))
             last == [name |-> df[Len(df)].name, geopoint |-> df[Len(df)].geopoint]
         IN  IF last \in Range(init) THEN init ELSE Append(init, last)

\* net.getNeighboringEdges(x, y, r=25) at the point of a geopoint text
NeighboringEdges(n, coord) == n[LatLon(coord)]

\* sorted(candidate_edges, key=lambda edge: edge[1]): a stable sort
RECURSIVE InsertByDist(_, _)
InsertByDist(sorted, c) ==
    IF sorted = <<>> THEN <<c>>
    ELSE IF sorted[Len(sorted)].dist <= c.dist THEN Append(sorted, c)
    ELSE Append(InsertByDist(SubSeq(sorted, 1, Len(sorted) - 1), c), sorted[Len(sorted)])

\* the candidates left in the order the network handed them out
Unsorted(cands) == cands

RECURSIVE SortByDist(_)
SortByDist(cands) ==
    IF cands = <<>> THEN <<>>
    ELSE InsertByDist(SortByDist(SubSeq(cands, 1, Len(cands) - 1)), cands[Len(cands)])

NonDrivable ==
    {"highway.pedestrian", "highway.track", "highway.footway",
     "highway.path", "highway.cycleway", "highway.steps"}

\* the condition without its name test
AcceptsDrivableOnly(edge, roadName) == edge.type \notin NonDrivable

\* the condition with its name test only
AcceptsNameOnly(edge, roadName) == Lower(edge.name) = Lower(roadName)

\* the condition of the selection loop
Accepts(edge, roadName) ==
    \/ Lower(edge.name) = Lower(roadName)
    \/ edge.type \notin NonDrivable

\* the for loop with its break: the first accepted edge from position i on
RECURSIVE FirstAccepted(_, _, _)
FirstAccepted(edges_and_dist, roadName, i) ==
    IF i > Len(edges_and_dist) THEN None
    ELSE IF Accepts(edges_and_dist[i].edge, roadName) THEN edges_and_dist[i].edge
    ELSE FirstAccepted(edges_and_dist, roadName, i + 1)

\* the else branch of the loop: next(... drivable ..., None)
RECURSIVE FirstDrivable(_, _)
FirstDrivable(edges_and_dist, i) ==
    IF i > Len(edges_and_dist) THEN None
    ELSE IF edges_and_dist[i].edge.type \notin NonDrivable THEN edges_and_dist[i].edge
    ELSE FirstDrivable(edges_and_dist, i + 1)

\* closest_edge for one row
ClosestEdge(candidate_edges, roadName) ==
    LET edges_and_dist == SortByDist(candidate_edges)
        found == FirstAccepted(edges_and_dist, roadName, 1)
    IN  IF edges_and_dist = <<>> THEN None
        ELSE IF found # None THEN found
        ELSE FirstDrivable(edges_and_dist, 1)

\* the loop body without the drop: an unmatched row stays, with no edge_id
MatchRowKeepUnmatched(n, row) ==
    LET closest_edge == ClosestEdge(NeighboringEdges(n, row.geopoint), row.name)
    IN  <<[name |-> row.name, geopoint |-> row.geopoint,
           edge_id |-> IF closest_edge # None THEN closest_edge.id ELSE NaN]>>

\* the body of the loop over df_unique for one row: the row with its edge_id,
\* or no row when it is dropped
MatchRow(n, row) ==
    LET closest_edge == ClosestEdge(NeighboringEdges(n, row.geopoint), row.name)
    IN  IF closest_edge # None
        THEN <<[name |-> row.name, geopoint |-> row.geopoint, edge_id |-> closest_edge.id]>>
        ELSE <<>>

\* the loop over df_unique: the table that is written to roadNamesFilePath
RECURSIVE MatchRows(_, _)
MatchRows(n, df_unique) ==
    IF df_unique = <<>> THEN <<>>
    ELSE MatchRows(n, SubSeq(df_unique, 1, Len(df_unique) - 1))
         \o MatchRow(n, df_unique[Len(df_unique)])

\* a file: absent, or a table (the sequence of its rows)
NoFile == [exists |-> FALSE, rows |-> <<>>]

File(rows) == [exists |-> TRUE, rows |-> rows]

GenerateRoadNamesFile ==
    /\ inputFile.exists
    /\ ~roadNamesFile.exists
    /\ roadNamesFile' = File(MatchRows(net, DropDuplicates(inputFile.rows)))
    /\ pc' = "generateRoadNamesFile"
    /\ UNCHANGED <<inputFile, net, history, reported, outputFile, zoneVars>>

(***************************************************************************)
(* fillMissingEdgeId (the edge-id backfill).                               *)
(***************************************************************************)
\* df[(df['Nome via'] == row['Nome via']) & (df['edge_id'].notna())]
SameStreet(df, name) ==
    SelectSeq(df, LAMBDA r : r.name = name /\ r.edge_id # NaN)

\* the last identifier found instead of the first
LastEdgeId(sameStreet) == sameStreet[Len(sameStreet)].edge_id

\* sameStreet['edge_id'].values[0]
FirstEdgeId(sameStreet) == sameStreet[1].edge_id

\* the loop leaving at its first assignment
FillLoopBreak(snapshot, df, i, empty) ==
    LET missing == {k \in DOMAIN snapshot :
                       /\ snapshot[k].edge_id = NaN
                       /\ SameStreet(df, snapshot[k].name) # <<>>}
        first == CHOOSE k \in missing : \A m \in missing : k <= m
    IN  IF missing = {} THEN [df |-> df, empty |-> empty]
        ELSE [df |-> [df EXCEPT ![first].edge_id =
                                    SameStreet(df, snapshot[first].name)[1].edge_id],
              empty |-> empty]

\* the loop counting every record it finds without identifier, filled or not
RECURSIVE FillLoopCountAll(_, _, _, _)
FillLoopCountAll(snapshot, df, i, empty) ==
    IF i > Len(snapshot) THEN [df |-> df, empty |-> empty]
    ELSE IF snapshot[i].edge_id = NaN
    THEN LET sameStreet == SameStreet(df, snapshot[i].name)
         IN  IF sameStreet # <<>>
             THEN FillLoopCountAll(snapshot,
                                   [df EXCEPT ![i].edge_id = sameStreet[1].edge_id],
                                   i + 1, empty + 1)
             ELSE FillLoopCountAll(snapshot, df, i + 1, empty + 1)
    ELSE FillLoopCountAll(snapshot, df, i + 1, empty)

\* the loop giving every record of a road name the road name's first
\* identifier, the records that had one included
FillLoopOverwrite(snapshot, df, i, empty) ==
    [df |-> [k \in DOMAIN df |->
                IF SameStreet(df, df[k].name) # <<>>
                THEN [df[k] EXCEPT !.edge_id = SameStreet(df, df[k].name)[1].edge_id]
                ELSE df[k]],
     empty |-> Cardinality({k \in DOMAIN df : SameStreet(df, df[k].name) = <<>>})]

\* the loop over df.iterrows() from row i on. iterrows() hands out the rows of
\* the table as it was when the loop started (snapshot); the search and the
\* assignment go to the table itself (df).
RECURSIVE FillLoop(_, _, _, _)
FillLoop(snapshot, df, i, empty) ==
    IF i > Len(snapshot) THEN [df |-> df, empty |-> empty]
    ELSE IF snapshot[i].edge_id = NaN
    THEN LET sameStreet == SameStreet(df, snapshot[i].name)
         IN  IF sameStreet # <<>>
             THEN FillLoop(snapshot,
                           [df EXCEPT ![i].edge_id = FirstEdgeId(sameStreet)],
                           i + 1, empty)
             ELSE FillLoop(snapshot, df, i + 1, empty + 1)
    ELSE FillLoop(snapshot, df, i + 1, empty)

FillMissingEdgeId ==
    /\ roadNamesFile.exists
    /\ ~outputFile.exists
    /\ Len(history) < MaxPasses
    /\ LET done == FillLoop(roadNamesFile.rows, roadNamesFile.rows, 1, 0)
       IN  /\ roadNamesFile' = File(done.df)
           /\ reported' = done.empty
    /\ history' = Append(history, roadNamesFile.rows)
    /\ pc' = "fillMissingEdgeId"
    /\ UNCHANGED <<inputFile, net, outputFile, zoneVars>>

(***************************************************************************)
(* linkEdgeId (the edge linker).                                           *)
(***************************************************************************)
\* the match on the parsed point instead of the geopoint text
LinkMatchesByPoint(dfRoadnames, row) ==
    SelectSeq(dfRoadnames,
              LAMBDA r : r.name = row.name /\ LatLon(r.geopoint) = LatLon(row.geopoint))

\* the match on the road name alone
LinkMatchesByName(dfRoadnames, row) ==
    SelectSeq(dfRoadnames, LAMBDA r : r.name = row.name)

\* dfRoadnames.loc[(name equal) & (geopoint equal), 'edge_id']
LinkMatches(dfRoadnames, row) ==
    SelectSeq(dfRoadnames,
              LAMBDA r : r.name = row.name /\ r.geopoint = row.geopoint)

\* the loop body taking the last match instead of the first
LinkRowLastMatch(dfRoadnames, row) ==
    LET edge == LinkMatches(dfRoadnames, row)
    IN  IF Len(edge) = 0 THEN <<>>
        ELSE <<[c \in DOMAIN row \cup {"edge_id"} |->
                   IF c = "edge_id" THEN edge[Len(edge)].edge_id ELSE row[c]]>>

\* the loop body keeping only the rows whose match has an identifier
LinkRowDropUndefined(dfRoadnames, row) ==
    LET edge == LinkMatches(dfRoadnames, row)
    IN  IF Len(edge) = 0 \/ edge[1].edge_id = NaN THEN <<>>
        ELSE <<[c \in DOMAIN row \cup {"edge_id"} |->
                   IF c = "edge_id" THEN edge[1].edge_id ELSE row[c]]>>

\* the body of the loop for one row: no row when nothing matches (drop), else
\* the row with all its columns and edge_id set to the first match
\* (df.at[index, 'edge_id'] = edge.values[0])
LinkRow(dfRoadnames, row) ==
    LET edge == LinkMatches(dfRoadnames, row)
    IN  IF Len(edge) = 0 THEN <<>>
        ELSE <<[c \in DOMAIN row \cup {"edge_id"} |->
                   IF c = "edge_id" THEN edge[1].edge_id ELSE row[c]]>>

RECURSIVE LinkRows(_, _)
LinkRows(dfRoadnames, df) ==
    IF df = <<>> THEN <<>>
    ELSE LinkRows(dfRoadnames, SubSeq(df, 1, Len(df) - 1))
         \o LinkRow(dfRoadnames, df[Len(df)])

LinkEdgeId ==
    /\ inputFile.exists
    /\ roadNamesFile.exists
    /\ ~outputFile.exists
    /\ outputFile' = File(LinkRows(roadNamesFile.rows, inputFile.rows))
    /\ pc' = "linkEdgeId"
    /\ UNCHANGED <<inputFile, net, roadNamesFile, history, reported, zoneVars>>

(***************************************************************************)
(* addZones (the zone assigner).                                           *)
(*                                                                         *)
(* Coordinates are integers; a centroid is kept as a fraction              *)
(* <<numerator of x, numerator of y, denominator>> and distances are       *)
(* compared exactly (the rounding of floating point is left out).          *)
(***************************************************************************)
\* Point(map(float, x.split(','))) followed by Point(p.y, p.x): the geopoint
\* text "lat,lon" becomes the point with x = lon and y = lat
PointGeometry(coord) == <<LatLon(coord)[2], LatLon(coord)[1]>>

\* parse_custom_geo_shape on the dict that eval() gives for one 'Geo Shape'
\* text: a geometry, or an error (a missing key and an unsupported type both
\* end in the ValueError of the except clause)
ParseCustomGeoShape(geo_data) ==
    IF "coordinates" \notin DOMAIN geo_data \/ "type" \notin DOMAIN geo_data
    THEN [ok |-> FALSE, type |-> "error"]
    ELSE LET geom_type == Lower(geo_data.type)
         IN  IF geom_type = <<"p", "o", "l", "y", "g", "o", "n">>
             THEN [ok |-> TRUE, type |-> "polygon", ring |-> geo_data.coordinates[1]]
             ELSE IF geom_type = <<"p", "o", "i", "n", "t">>
             THEN [ok |-> TRUE, type |-> "point", xy |-> geo_data.coordinates]
             ELSE [ok |-> FALSE, type |-> "error"]

\* the ring of a polygon, closed
Closed(ring) == IF ring[1] = ring[Len(ring)] THEN ring ELSE Append(ring, ring[1])

Min(a, b) == IF a <= b THEN a ELSE b
Max(a, b) == IF a >= b THEN a ELSE b

\* p lies on the segment from a to b
OnSegment(a, b, p) ==
    /\ (b[1] - a[1]) * (p[2] - a[2]) = (b[2] - a[2]) * (p[1] - a[1])
    /\ Min(a[1], b[1]) <= p[1] /\ p[1] <= Max(a[1], b[1])
    /\ Min(a[2], b[2]) <= p[2] /\ p[2] <= Max(a[2], b[2])

\* the horizontal ray from p to the right crosses the segment from a to b
Crosses(a, b, p) ==
    /\ (a[2] > p[2]) # (b[2] > p[2])
    /\ IF b[2] > a[2]
       THEN (p[1] - a[1]) * (b[2] - a[2]) < (p[2] - a[2]) * (b[1] - a[1])
       ELSE (p[1] - a[1]) * (b[2] - a[2]) > (p[2] - a[2]) * (b[1] - a[1])

\* geometry.contains(point): the point is in the interior of the geometry
Contains(geom, p) ==
    IF geom.type = "point" THEN geom.xy = p
    ELSE LET ring == Closed(geom.ring)
             sides == 1 .. (Len(ring) - 1)
         IN  /\ \A i \in sides : ~OnSegment(ring[i], ring[i + 1], p)
             /\ Cardinality({i \in sides : Crosses(ring[i], ring[i + 1], p)}) % 2 = 1

RECURSIVE SumOver(_, _, _)
\* the sum of f[i] for i in lo..hi
SumOver(f, lo, hi) == IF lo > hi THEN 0 ELSE f[lo] + SumOver(f, lo + 1, hi)

\* geom.centroid as a fraction <<nx, ny, d>> with d > 0
Centroid(geom) ==
    IF geom.type = "point" THEN <<geom.xy[1], geom.xy[2], 1>>
    ELSE LET ring == Closed(geom.ring)
             n == Len(ring) - 1
             cross == [i \in 1 .. n |->
                          ring[i][1] * ring[i + 1][2] - ring[i + 1][1] * ring[i][2]]
             a2 == SumOver(cross, 1, n)
             nx == SumOver([i \in 1 .. n |-> (ring[i][1] + ring[i + 1][1]) * cross[i]], 1, n)
             ny == SumOver([i \in 1 .. n |-> (ring[i][2] + ring[i + 1][2]) * cross[i]], 1, n)
         IN  IF a2 > 0 THEN <<nx, ny, 3 * a2>> ELSE <<-nx, -ny, -3 * a2>>

\* the squared distance from p to the centroid c, times the square of c[3]
ScaledDist2(c, p) ==
    (p[1] * c[3] - c[1]) * (p[1] * c[3] - c[1])
    + (p[2] * c[3] - c[2]) * (p[2] * c[3] - c[2])

\* the centroid c is strictly nearer to p than the centroid d
Nearer(c, d, p) == ScaledDist2(c, p) * d[3] * d[3] < ScaledDist2(d, p) * c[3] * c[3]

\* geo_shapes_gdf[geo_shapes_gdf.geometry.contains(point.geometry)]: the
\* positions of the containing shapes, in the order of the zone file
ContainingShape(geoms, p) ==
    SelectSeq([i \in DOMAIN geoms |-> i], LAMBDA i : Contains(geoms[i], p))

\* geo_shapes_centroids: the centroid of every shape, in the order of the file
Centroids(geoms) == [i \in DOMAIN geoms |-> Centroid(geoms[i])]

\* the positions whose centroid is farthest
FarthestShapes(centroids, p) ==
    {i \in DOMAIN centroids :
        \A j \in DOMAIN centroids : ~Nearer(centroids[i], centroids[j], p)}

\* tree.query(points_coords) for one point: a position whose centroid is
\* nearest. The index does not say which of several equally near centroids
\* it returns, so every one of them is a possible answer.
NearestShapes(centroids, p) ==
    {i \in DOMAIN centroids :
        \A j \in DOMAIN centroids : ~Nearer(centroids[j], centroids[i], p)}

\* the nearest shape's identifier for every point, contained or not
ZoneOfNearestOnly(zones, geoms, p, nearest) == zones[nearest].id

\* the containment pass without the fallback
ZoneOfContainingOnly(zones, geoms, p, nearest) ==
    LET containing_shape == ContainingShape(geoms, p)
    IN  IF containing_shape # <<>>
        THEN zones[containing_shape[1]].id
        ELSE NaN

\* the zone of one point: the first containing shape's identifier when there
\* is one (the containment pass), else the identifier of the shape the
\* nearest-centroid query returned (fillna)
ZoneOf(zones, geoms, p, nearest) ==
    LET containing_shape == ContainingShape(geoms, p)
    IN  IF containing_shape # <<>>
        THEN zones[containing_shape[1]].id
        ELSE zones[nearest].id

\* the geometries of the zone file
Geometries(zones) == [i \in DOMAIN zones |-> ParseCustomGeoShape(zones[i].shape)]

\* addZones leaving out the zone records whose shape does not parse
AddZonesSkipInvalid ==
    /\ zpc = "start"
    /\ LET zones == SelectSeq(zoneFile.rows,
                              LAMBDA z : ParseCustomGeoShape(z.shape).ok)
           geoms == Geometries(zones)
           points == pointsFile.rows
           centroids == Centroids(geoms)
           near == [k \in DOMAIN points |->
                       NearestShapes(centroids, PointGeometry(points[k].geopoint))]
       IN  /\ zones # <<>>
           /\ \E indices \in {f \in [DOMAIN points -> DOMAIN zones] :
                                  \A k \in DOMAIN points : f[k] \in near[k]} :
                   pointsFile' =
                       File([k \in DOMAIN points |->
                                [geopoint |-> points[k].geopoint,
                                 codZone |-> ZoneOf(zones, geoms,
                                                    PointGeometry(points[k].geopoint),
                                                    indices[k])]])
    /\ zpc' = "done"
    /\ UNCHANGED <<zoneFile, edgeVars>>

\* addZones runs to its end: every shape parses, and there is a zone to index
AddZones ==
    /\ zpc = "start"
    /\ zoneFile.rows # <<>>
    /\ \A i \in DOMAIN zoneFile.rows : ParseCustomGeoShape(zoneFile.rows[i].shape).ok
    /\ LET zones == zoneFile.rows
           geoms == Geometries(zones)
           points == pointsFile.rows
           centroids == Centroids(geoms)
           near == [k \in DOMAIN points |->
                       NearestShapes(centroids, PointGeometry(points[k].geopoint))]
       IN  \E indices \in {f \in [DOMAIN points -> DOMAIN zones] :
                              \A k \in DOMAIN points : f[k] \in near[k]} :
               pointsFile' =
                   File([k \in DOMAIN points |->
                            [geopoint |-> points[k].geopoint,
                             codZone |-> ZoneOf(zones, geoms,
                                                PointGeometry(points[k].geopoint),
                                                indices[k])]])
    /\ zpc' = "done"
    /\ UNCHANGED <<zoneFile, edgeVars>>

\* addZones raises: a shape does not parse, or there is no centroid to index
AddZonesRaises ==
    /\ zpc = "start"
    /\ \/ zoneFile.rows = <<>>
       \/ \E i \in DOMAIN zoneFile.rows : ~ParseCustomGeoShape(zoneFile.rows[i].shape).ok
    /\ zpc' = "error"
    /\ UNCHANGED <<pointsFile, zoneFile, edgeVars>>

(***************************************************************************)
(* Specifications.                                                         *)
(***************************************************************************)
SensorRows(geos) == [name : RoadNames, geopoint : geos]

\* sensor rows with one more column, standing for the rest of the raw record
SensorRowsWithData(geos) == [name : RoadNames, geopoint : geos, data : {"x", "y"}]

RoadNameRecords(geos, ids) ==
    [name : RoadNames, geopoint : geos, edge_id : ids \cup {NaN}]

NoZones ==
    /\ pointsFile = NoFile
    /\ zoneFile = NoFile
    /\ zpc = "unused"

\* The pipeline: the edge matcher on a sensor table and a road network, then
\* backfill passes, then the edge linker on the same sensor table.
Init ==
    /\ inputFile \in {File(t) : t \in SeqsUpTo(SensorRows({GeoA, GeoB}), MaxRows)}
    /\ net \in [{LatLon(r.geopoint) : r \in Range(inputFile.rows)} -> CandLists]
    /\ roadNamesFile = NoFile
    /\ history = <<>>
    /\ reported = -1
    /\ outputFile = NoFile
    /\ pc = "start"
    /\ NoZones

Next ==
    \/ GenerateRoadNamesFile
    \/ FillMissingEdgeId
    \/ LinkEdgeId

Spec == Init /\ [][Next]_vars

\* The backfill on any road-name table.
InitFill ==
    /\ inputFile = NoFile
    /\ net = <<>>
    /\ roadNamesFile \in
           {File(t) : t \in SeqsUpTo(RoadNameRecords({GeoA, GeoB}, {"e1", "e2"}), MaxRecs)}
    /\ history = <<>>
    /\ reported = -1
    /\ outputFile = NoFile
    /\ pc = "start"
    /\ NoZones

NextFill == FillMissingEdgeId

SpecFill == InitFill /\ [][NextFill]_vars

\* The linker on any sensor table and any road-name table.
InitLink ==
    /\ inputFile \in
           {File(t) : t \in SeqsUpTo(SensorRowsWithData({GeoA, GeoA0}), MaxLinkRows)}
    /\ net = <<>>
    /\ roadNamesFile \in
           {File(t) : t \in SeqsUpTo(RoadNameRecords({GeoA, GeoA0}, {"e1", "e2"}), MaxLinkRows)}
    /\ history = <<>>
    /\ reported = -1
    /\ outputFile = NoFile
    /\ pc = "start"
    /\ NoZones

NextLink == LinkEdgeId

SpecLink == InitLink /\ [][NextLink]_vars

\* The zone assigner on any point table and any zone table.
MaxPoints == 2      \* rows of the point table
MaxZones == 3       \* records of the zone table

Polygon == <<"P", "o", "l", "y", "g", "o", "n">>

\* the geopoint texts of the point table ("lat,lon")
ZoneGeoPoints ==
    { <<"1", ",", "1">>, <<"1", ",", "3">>, <<"1", ".", "0", ",", "3">>,
      <<"3", ",", "3">>, <<"3", ",", "1">>, <<"4", ",", "4">> }

\* the records of the zone dataset: identifier and 'Geo Shape' (x, y pairs)
ZonePool ==
    { [id |-> "Z1",
       shape |-> [type |-> Polygon,
                  coordinates |-> << <<<<0, 0>>, <<4, 0>>, <<4, 2>>, <<0, 2>>, <<0, 0>>>> >>]],
      [id |-> "Z2",
       shape |-> [type |-> Lower(Polygon),
                  coordinates |-> << <<<<2, 0>>, <<4, 0>>, <<4, 4>>, <<2, 4>>, <<2, 0>>>> >>]],
      [id |-> "Z3",
       shape |-> [type |-> Polygon,
                  coordinates |-> << <<<<2, 4>>, <<4, 2>>, <<4, 4>>, <<2, 4>>>> >>]],
      [id |-> "Z4",
       shape |-> [type |-> <<"P", "o", "i", "n", "t">>, coordinates |-> <<4, 4>>]],
      [id |-> "Z5",
       shape |-> [type |-> <<"L", "i", "n", "e">>,
                  coordinates |-> << <<0, 0>>, <<1, 1>> >>]],
      [id |-> "Z6",
       shape |-> [type |-> Polygon]] }

NoEdges ==
    /\ inputFile = NoFile
    /\ net = <<>>
    /\ roadNamesFile = NoFile
    /\ history = <<>>
    /\ reported = -1
    /\ outputFile = NoFile
    /\ pc = "unused"

InitZones ==
    /\ pointsFile \in
           {File(t) : t \in SeqsUpTo([geopoint : ZoneGeoPoints], MaxPoints) \ {<<>>}}
    /\ zoneFile \in
           {File(t) : t \in {z \in SeqsUpTo(ZonePool, MaxZones) :
                                \A i, j \in DOMAIN z : i # j => z[i] # z[j]}}
    /\ zpc = "start"
    /\ NoEdges

NextZones ==
    \/ AddZones
    \/ AddZonesRaises

SpecZones == InitZones /\ [][NextZones]_vars

(***************************************************************************)
(* Properties of the edge matcher, stated on the table it has just         *)
(* written, for every distinct (road name, geopoint) pair of its input.    *)
(***************************************************************************)
Matched == pc = "generateRoadNamesFile"

\* the distinct (road name, geopoint) pairs of the sensor table
Pairs == {[name |-> r.name, geopoint |-> r.geopoint] : r \in Range(inputFile.rows)}

\* the candidates the proximity query returned for the point of pair k
Cands(k) == net[LatLon(k.geopoint)]

\* the edge identifiers the written table holds for pair k
Selected(k) ==
    {r.edge_id : r \in {x \in Range(roadNamesFile.rows) :
                           x.name = k.name /\ x.geopoint = k.geopoint}}

\* candidate i comes before candidate j in distance order (candidates at the
\* same distance stay in the order of the query)
Before(c, i, j) == c[i].dist < c[j].dist \/ (c[i].dist = c[j].dist /\ i < j)

\* the first of the positions in I, in distance order
FirstOf(c, I) == CHOOSE i \in I : \A j \in I \ {i} : Before(c, i, j)

NameEqual(c, k) == {i \in DOMAIN c : Lower(c[i].edge.name) = Lower(k.name)}

Drivable(c) ==
    {i \in DOMAIN c : c[i].edge.type \notin
        {"highway.pedestrian", "highway.track", "highway.footway",
         "highway.path", "highway.cycleway", "highway.steps"}}

\* C1 as stated: whenever some candidate of a point is name-equal to the road
\* name, the selected edge is a nearest name-equal candidate.
C1_NameMatchAlwaysSelected ==
    Matched =>
        \A k \in Pairs :
            LET c == Cands(k)
                eq == NameEqual(c, k)
            IN  eq # {} =>
                    \E i \in eq :
                        /\ \A j \in eq : c[i].dist <= c[j].dist
                        /\ Selected(k) = {c[i].edge.id}

\* C1 as amended: when some candidate is name-equal, the selected edge is the
\* first name-equal candidate in distance order provided no differently named
\* drivable candidate comes before it (so it wins over every closer candidate
\* that is differently named and non-drivable); when a differently named
\* drivable candidate comes before it, the first such candidate is selected.
C1_NameMatchUnlessCloserDrivable ==
    Matched =>
        \A k \in Pairs :
            LET c == Cands(k)
                eq == NameEqual(c, k)
                first == FirstOf(c, eq)
                closer == {i \in Drivable(c) \ eq : Before(c, i, first)}
            IN  eq # {} =>
                    IF closer = {}
                    THEN Selected(k) = {c[first].edge.id}
                    ELSE Selected(k) = {c[FirstOf(c, closer)].edge.id}

\* a name-equal, non-drivable candidate is selected although a differently
\* named non-drivable candidate is closer
C1_Witness ==
    /\ Matched
    /\ \E k \in Pairs :
           LET c == Cands(k)
               eq == NameEqual(c, k)
           IN  /\ eq # {}
               /\ Selected(k) = {c[FirstOf(c, eq)].edge.id}
               /\ FirstOf(c, eq) \notin Drivable(c)
               /\ \E i \in DOMAIN c :
                      /\ i \notin eq
                      /\ i \notin Drivable(c)
                      /\ c[i].dist < c[FirstOf(c, eq)].dist

\* C2: the selected edge is the first candidate in distance order that is
\* name-equal or drivable; no candidate before it is, it is itself, a
\* non-drivable edge is selected only when name-equal, and nothing is selected
\* when no candidate is name-equal or drivable.
C2_FirstAcceptedInDistanceOrder ==
    Matched =>
        \A k \in Pairs :
            LET c == Cands(k)
                ok == NameEqual(c, k) \cup Drivable(c)
            IN  /\ ok # {} => Selected(k) = {c[FirstOf(c, ok)].edge.id}
                /\ ok = {} => Selected(k) = {}
                /\ \A i \in DOMAIN c :
                       (c[i].edge.id \in Selected(k) /\ i \notin Drivable(c))
                           => i \in NameEqual(c, k)

\* the query returned a farther candidate first, and the selected edge is a
\* non-drivable, name-equal one
C2_Witness ==
    /\ Matched
    /\ \E k \in Pairs :
           LET c == Cands(k)
           IN  /\ Len(c) >= 2
               /\ c[1].dist > c[2].dist
               /\ Selected(k) = {c[2].edge.id}
               /\ 2 \notin Drivable(c)
               /\ 2 \in NameEqual(c, k)

\* C3 as stated: a pair whose query returned no candidate has no record, and
\* the table is shorter than the number of distinct pairs by exactly the
\* number of such pairs.
C3_DropsExactlyZeroCandidatePairs ==
    Matched =>
        /\ \A k \in Pairs : Cands(k) = <<>> => Selected(k) = {}
        /\ Cardinality(Pairs) - Len(roadNamesFile.rows)
               = Cardinality({k \in Pairs : Cands(k) = <<>>})

\* C3 as amended: a pair whose query returned no candidate has no record, and
\* the table is shorter than the number of distinct pairs by exactly the
\* number of pairs none of whose candidates is name-equal or drivable (the
\* pairs without any candidate are among them).
C3_DropsExactlyUnacceptedPairs ==
    Matched =>
        /\ \A k \in Pairs : Cands(k) = <<>> => Selected(k) = {}
        /\ Cardinality(Pairs) - Len(roadNamesFile.rows)
               = Cardinality({k \in Pairs :
                                 NameEqual(Cands(k), k) \cup Drivable(Cands(k)) = {}})

\* one pair is dropped for want of candidates, another is kept
C3_Witness ==
    /\ Matched
    /\ \E k \in Pairs : Cands(k) = <<>> /\ Selected(k) = {}
    /\ \E k \in Pairs : Cands(k) # <<>> /\ Selected(k) # {}

\* C4: after the edge matcher and any number of backfill passes, every record
\* with an edge identifier holds the identifier of a candidate that the
\* proximity query returned for that record's own point.
C4_IdentifierFromOwnCandidates ==
    roadNamesFile.exists =>
        \A r \in Range(roadNamesFile.rows) :
            r.edge_id # NaN =>
                \E i \in DOMAIN net[LatLon(r.geopoint)] :
                    net[LatLon(r.geopoint)][i].edge.id = r.edge_id

\* a backfill pass has run on a table where one road name has records at two
\* points, with different identifiers
C4_Witness ==
    /\ pc = "fillMissingEdgeId"
    /\ \E r, q \in Range(roadNamesFile.rows) :
           /\ r.name = q.name
           /\ LatLon(r.geopoint) # LatLon(q.geopoint)
           /\ r.edge_id # NaN /\ q.edge_id # NaN
           /\ r.edge_id # q.edge_id

(***************************************************************************)
(* Properties of the zone assigner, stated on the point table it has       *)
(* written.                                                                *)
(***************************************************************************)
Assigned == zpc = "done"

\* the point of row k, in the coordinate order of the zone geometries
PointOf(k) == PointGeometry(pointsFile.rows[k].geopoint)

\* the positions of the zone records whose geometry has the point of row k in
\* its interior
Around(k) ==
    {i \in DOMAIN zoneFile.rows :
        Contains(ParseCustomGeoShape(zoneFile.rows[i].shape), PointOf(k))}

\* the centroid of zone record i is at least as near to the point of row k as
\* the centroid of every zone record
IsNearest(i, k) ==
    \A j \in DOMAIN zoneFile.rows :
        ~Nearer(Centroid(ParseCustomGeoShape(zoneFile.rows[j].shape)),
                Centroid(ParseCustomGeoShape(zoneFile.rows[i].shape)),
                PointOf(k))

\* C5: a point in the interior of some zone geometry gets the identifier of
\* the first such zone record in the order of the zone file, whichever
\* centroid is nearest; in particular the identifier of the one zone that
\* contains it.
C5_ContainmentWins ==
    Assigned =>
        \A k \in DOMAIN pointsFile.rows :
            Around(k) # {} =>
                \E i \in Around(k) :
                    /\ \A j \in Around(k) : i <= j
                    /\ pointsFile.rows[k].codZone = zoneFile.rows[i].id

\* one point lies in exactly one zone whose centroid is not the nearest, and
\* one point lies in two zones
C5_Witness ==
    /\ Assigned
    /\ \E k \in DOMAIN pointsFile.rows :
           /\ Cardinality(Around(k)) = 1
           /\ \A i \in Around(k) :
                  /\ ~IsNearest(i, k)
                  /\ pointsFile.rows[k].codZone = zoneFile.rows[i].id
    /\ \E k \in DOMAIN pointsFile.rows : Cardinality(Around(k)) = 2

C7_EveryPointOneZone ==
    [][zpc' = "done" =>
          /\ Len(pointsFile'.rows) = Len(pointsFile.rows)
          /\ \A k \in DOMAIN pointsFile.rows :
                 /\ pointsFile'.rows[k].geopoint = pointsFile.rows[k].geopoint
                 /\ pointsFile'.rows[k].codZone \in {z.id : z \in Range(zoneFile.rows)}]_vars

\* a table of two points, one assigned by containment and one by the fallback
C7_Witness ==
    /\ Assigned
    /\ \E k, m \in DOMAIN pointsFile.rows :
           /\ Around(k) # {}
           /\ Around(m) = {}
           /\ pointsFile.rows[k].codZone # pointsFile.rows[m].codZone

\* the 'Geo Shape' of a zone record is malformed (a key is missing) or of a
\* type that is neither "polygon" nor "point" in any spelling of case
Unusable(shape) ==
    \/ "type" \notin DOMAIN shape
    \/ "coordinates" \notin DOMAIN shape
    \/ Lower(shape.type) \notin {Lower(Polygon), <<"p", "o", "i", "n", "t">>}

\* C12: when some record of the zone file has a malformed geometry or one of
\* an unsupported type, addZones ends in its error: it does not go on without
\* that record, the point file stays as it was and no row of it carries a zone.
C12_MalformedGeometryAborts ==
    [][(\E i \in DOMAIN zoneFile.rows : Unusable(zoneFile.rows[i].shape)) =>
          /\ zpc' = "error"
          /\ pointsFile' = pointsFile
          /\ \A r \in Range(pointsFile'.rows) : "codZone" \notin DOMAIN r]_vars

\* addZones ended in its error on a zone file whose first record is usable,
\* with a malformed record and a record of an unsupported type after it
C12_Witness ==
    /\ zpc = "error"
    /\ Len(zoneFile.rows) = 3
    /\ ~Unusable(zoneFile.rows[1].shape)
    /\ \E i, j \in DOMAIN zoneFile.rows :
           /\ "coordinates" \notin DOMAIN zoneFile.rows[i].shape
           /\ "coordinates" \in DOMAIN zoneFile.rows[j].shape
           /\ Unusable(zoneFile.rows[j].shape)

(***************************************************************************)
(* Properties of the backfill, stated on the table before a pass           *)
(* (history) and the table after it.                                       *)
(***************************************************************************)
\* the table after backfill pass n
After(n) == IF n = Len(history) THEN roadNamesFile.rows ELSE history[n + 1]

\* the positions of the records of table t that have road name s and an
\* edge identifier
Defined(t, s) == {j \in DOMAIN t : t[j].name = s /\ t[j].edge_id # NaN}

\* C8: a backfill pass on the output of a backfill pass leaves the table as
\* it is.
C8_BackfillIdempotent ==
    \A n \in DOMAIN history : n >= 2 => After(n) = history[n]

\* two passes have run and the first one filled an identifier in
C8_Witness ==
    /\ Len(history) = 2
    /\ history[1] # history[2]
    /\ history[2] = roadNamesFile.rows

\* C9: after a pass, every record that had no identifier and whose road name
\* had a record with an identifier in the input table carries the identifier
\* of the first such record of the input table; so all records of one road
\* name filled in by the pass carry the same identifier.
C9_FirstDefinedOfInput ==
    \A n \in DOMAIN history :
        LET in == history[n]
            out == After(n)
        IN  \A i \in DOMAIN in :
                (in[i].edge_id = NaN /\ Defined(in, in[i].name) # {}) =>
                    \E j \in Defined(in, in[i].name) :
                        /\ \A m \in Defined(in, in[i].name) : j <= m
                        /\ out[i].edge_id = in[j].edge_id

\* two records without identifier come before two records of the same road
\* name with different identifiers, and both got the first of these
C9_Witness ==
    /\ Len(history) = 1
    /\ \E s \in RoadNames :
           LET in == history[1]
           IN  /\ Len(in) >= 4
               /\ \A i \in 1 .. 4 : in[i].name = s
               /\ in[1].edge_id = NaN /\ in[2].edge_id = NaN
               /\ in[3].edge_id # NaN /\ in[4].edge_id # NaN
               /\ in[3].edge_id # in[4].edge_id
               /\ roadNamesFile.rows[1].edge_id = in[3].edge_id
               /\ roadNamesFile.rows[2].edge_id = in[3].edge_id

\* the number of records of table t without an edge identifier
Undefined(t) == Cardinality({i \in DOMAIN t : t[i].edge_id = NaN})

\* C13: the number a backfill pass reports is the number of records without
\* an edge identifier in the table the pass has written.
C13_ReportedIsRemainingUndefined ==
    pc = "fillMissingEdgeId" => reported = Undefined(roadNamesFile.rows)

\* a pass filled one record in and left two of another road name without
\* identifier, one before and one after the filled record
C13_Witness ==
    /\ Len(history) = 1
    /\ reported = 2
    /\ \E i, j, k \in DOMAIN roadNamesFile.rows :
           /\ i < j /\ j < k
           /\ roadNamesFile.rows[i].edge_id = NaN
           /\ roadNamesFile.rows[k].edge_id = NaN
           /\ history[1][j].edge_id = NaN
           /\ roadNamesFile.rows[j].edge_id # NaN

Linked == pc = "linkEdgeId"

\* the (road name, geopoint) pair of a row
Key(r) == [name |-> r.name, geopoint |-> r.geopoint]

\* the number of rows of table t with road name and geopoint text of k
Count(t, k) ==
    Cardinality({i \in DOMAIN t : t[i].name = k.name /\ t[i].geopoint = k.geopoint})

\* the road-name table has a record with the road name and geopoint text of k
HasRecord(k) ==
    \E r \in Range(roadNamesFile.rows) : r.name = k.name /\ r.geopoint = k.geopoint

\* C10: the output holds the sensor rows whose road name and geopoint text
\* are those of some record of the road-name table, each as often as the
\* input holds it, and no other row.
C10_InnerJoinOnExactKey ==
    Linked =>
        \A k \in {[name |-> r.name, geopoint |-> r.geopoint] :
                     r \in Range(inputFile.rows) \cup Range(outputFile.rows)} :
            Count(outputFile.rows, k)
                = IF HasRecord(k) THEN Count(inputFile.rows, k) ELSE 0

\* one sensor row is kept; another is removed although a record of its road
\* name has the same point, written differently
C10_Witness ==
    /\ Linked
    /\ Len(outputFile.rows) = 1
    /\ \E i \in DOMAIN inputFile.rows :
           /\ ~HasRecord(inputFile.rows[i])
           /\ \E r \in Range(roadNamesFile.rows) :
                  /\ r.name = inputFile.rows[i].name
                  /\ LatLon(r.geopoint) = LatLon(inputFile.rows[i].geopoint)

\* the position of the first record of table t with the road name and the
\* geopoint text of row r
FirstRecord(t, r) ==
    CHOOSE j \in DOMAIN t :
        /\ t[j].name = r.name /\ t[j].geopoint = r.geopoint
        /\ \A m \in 1 .. (j - 1) : ~(t[m].name = r.name /\ t[m].geopoint = r.geopoint)

\* C15: linkEdgeId leaves the road-name table as it is and writes the sensor
\* rows that have a record, in their input order, each with all the columns
\* it had, unchanged, and with the edge identifier of the first record of the
\* road-name table that has its road name and geopoint text.
C15_FirstRecordAndFrame ==
    [][pc' = "linkEdgeId" =>
          /\ roadNamesFile' = roadNamesFile
          /\ LET kept == SelectSeq(inputFile.rows, HasRecord)
                 out == outputFile'.rows
             IN  /\ Len(out) = Len(kept)
                 /\ \A i \in DOMAIN kept :
                        /\ DOMAIN out[i] = DOMAIN kept[i] \cup {"edge_id"}
                        /\ \A c \in DOMAIN kept[i] \ {"edge_id"} : out[i][c] = kept[i][c]
                        /\ out[i].edge_id =
                               roadNamesFile.rows[FirstRecord(roadNamesFile.rows,
                                                              kept[i])].edge_id]_vars

\* two sensor rows that differ in their other column are both kept, in their
\* order; the road-name table holds two records of the first row's road name
\* and geopoint, with different identifiers, and the row has the first one's
C15_Witness ==
    /\ Linked
    /\ Len(inputFile.rows) = 2
    /\ Len(outputFile.rows) = 2
    /\ inputFile.rows[1].data # inputFile.rows[2].data
    /\ outputFile.rows[1].data = inputFile.rows[1].data
    /\ Len(roadNamesFile.rows) = 2
    /\ Key(roadNamesFile.rows[1]) = Key(roadNamesFile.rows[2])
    /\ roadNamesFile.rows[1].edge_id # roadNamesFile.rows[2].edge_id
    /\ outputFile.rows[1].edge_id = roadNamesFile.rows[1].edge_id

\* no two records of the road-name table have the same road name and geopoint
UniqueKeys ==
    \A i, j \in DOMAIN roadNamesFile.rows :
        Key(roadNamesFile.rows[i]) = Key(roadNamesFile.rows[j]) => i = j

\* the road-name table is one a backfill pass leaves as it is
Backfilled ==
    FillLoop(roadNamesFile.rows, roadNamesFile.rows, 1, 0).df = roadNamesFile.rows

\* C18: the linker keeps a sensor row whenever the road-name table has a
\* record of its road name and geopoint text, also when the record the row
\* takes its identifier from (the first such record) has none, and the row
\* is then written without identifier; so every row of the output has an
\* identifier exactly when that record has one for every sensor row that has
\* a record. In a table after backfill, and in a table with one record per
\* (road name, geopoint) pair, this is so exactly when every record matched
\* by a sensor row has an identifier.
C18_RetentionOnKeyPresenceOnly ==
    Linked =>
        LET t == roadNamesFile.rows
            kept == SelectSeq(inputFile.rows, HasRecord)
            taken == {FirstRecord(t, kept[i]) : i \in DOMAIN kept}
            matched == {j \in DOMAIN t : \E i \in DOMAIN kept : Key(t[j]) = Key(kept[i])}
        IN  /\ Len(outputFile.rows) = Len(kept)
            /\ \A i \in DOMAIN kept :
                   t[FirstRecord(t, kept[i])].edge_id = NaN
                       => outputFile.rows[i].edge_id = NaN
            /\ (\A r \in Range(outputFile.rows) : r.edge_id # NaN)
                   <=> (\A j \in taken : t[j].edge_id # NaN)
            /\ (Backfilled \/ UniqueKeys) =>
                   ((\A r \in Range(outputFile.rows) : r.edge_id # NaN)
                       <=> (\A j \in matched : t[j].edge_id # NaN))

\* of two sensor rows the output holds one without identifier, matched to a
\* record left without identifier by backfill, and one with the identifier
\* of its record
C18_Witness ==
    /\ Linked
    /\ Backfilled
    /\ Len(outputFile.rows) = 2
    /\ outputFile.rows[1].edge_id = NaN
    /\ outputFile.rows[2].edge_id # NaN
    /\ \E r \in Range(roadNamesFile.rows) :
           Key(r) = Key(inputFile.rows[1]) /\ r.edge_id = NaN

(***************************************************************************)
(* Properties of the pipeline: the edge matcher, then backfill passes,     *)
(* then the linker, all on the same sensor table.                          *)
(***************************************************************************)
\* C16: whenever the selection loop of the edge matcher runs through all
\* the candidates of a pair without accepting one, every candidate is of a
\* non-drivable type, the else branch finds no edge and the pair has no
\* record; so the selected edge is the one the loop accepts, and a pair has a
\* record exactly when one of its candidates is name-equal or drivable.
C16_FallbackNeverSelects ==
    Matched =>
        \A k \in Pairs :
            LET edges_and_dist == SortByDist(Cands(k))
                found == FirstAccepted(edges_and_dist, k.name, 1)
            IN  /\ found = None =>
                       /\ Drivable(Cands(k)) = {}
                       /\ FirstDrivable(edges_and_dist, 1) = None
                       /\ Selected(k) = {}
                /\ found # None => Selected(k) = {found.id}
                /\ Selected(k) # {}
                       <=> NameEqual(Cands(k), k) \cup Drivable(Cands(k)) # {}

\* the loop ran through the candidates of a pair without accepting one, and
\* the pair has no record
C16_Witness ==
    /\ Matched
    /\ \E k \in Pairs :
           /\ Cands(k) # <<>>
           /\ FirstAccepted(SortByDist(Cands(k)), k.name, 1) = None
           /\ Selected(k) = {}

\* C17: every record of the table the edge matcher writes has an edge
\* identifier, and a backfill pass on that table (and on the table of an
\* earlier such pass) leaves it as it is and reports zero.
C17_MatcherOutputAllDefined ==
    /\ roadNamesFile.exists => \A r \in Range(roadNamesFile.rows) : r.edge_id # NaN
    /\ \A n \in DOMAIN history : After(n) = history[n]
    /\ pc = "fillMissingEdgeId" => reported = 0

\* the edge matcher dropped one pair and kept another, and a backfill pass
\* ran on the table it wrote
C17_Witness ==
    /\ pc = "fillMissingEdgeId"
    /\ Len(history) = 1
    /\ Len(roadNamesFile.rows) = 1
    /\ Cardinality(Pairs) = 2
    /\ reported = 0

\* the table the edge matcher wrote (the input of the first backfill pass)
MatcherOutput == history[1]

\* the edge matcher kept the pair of row r
Retained(r) == \E q \in Range(MatcherOutput) : Key(q) = Key(r)

\* the pairs of the rows of table t, in row order
Keys(t) == [i \in DOMAIN t |-> Key(t[i])]

\* C11: after the edge matcher, at least one backfill pass and the linker on
\* the same sensor table, the linker's output holds, in input order, exactly
\* the sensor rows whose (road name, geopoint) pair the edge matcher kept:
\* every row of a dropped pair is absent, every row of a kept pair present.
C11_PipelineExclusion ==
    (Linked /\ history # <<>>) =>
        Keys(outputFile.rows) = Keys(SelectSeq(inputFile.rows, Retained))

\* the edge matcher dropped the pair of one sensor row and kept the pair of
\* another of the same road name; the linker then ran
C11_Witness ==
    /\ Linked
    /\ history # <<>>
    /\ \E i, j \in DOMAIN inputFile.rows :
           /\ inputFile.rows[i].name = inputFile.rows[j].name
           /\ Retained(inputFile.rows[i])
           /\ ~Retained(inputFile.rows[j])
    /\ Len(outputFile.rows) = 1

====
